---------------------------- MODULE Spec2Model ----------------------------
(***************************************************************************)
(* A model of scripts/dmel_tubule_analysis.py: the class                   *)
(* malpighian_movie_processing, which thresholds a movie, masks every      *)
(* frame into the labels 0 (cells), 1 and 2 (backgrounds) and 3 (lumen),   *)
(* optionally corrects the lumen against neighbouring frames, and measures *)
(* every mask.                                                             *)
(*                                                                         *)
(* Numbers.  Python computes the means of running_average and the line of  *)
(* kneedle in floating point.  The model keeps them exact: a mean is the   *)
(* pair <<sum, count>> (count 0 is numpy's NaN, the mean of an empty       *)
(* slice), and two line differences are compared after multiplying both by *)
(* the positive denominator.  Python lists and numpy arrays are 0-based;   *)
(* TLA+ sequences are 1-based, so element i of the code is v[i + 1] here,  *)
(* and every index the model reports is the code's 0-based index.          *)
(***************************************************************************)
EXTENDS Integers, Sequences, FiniteSets, TLC

VARIABLES
    pc,              \* where process_movie stands
    movie,           \* self.movie: the frames
    t,               \* the running frame index of the loop pc names
    rawThresholds,   \* threshold_movie: the list `thresholds` while it is filled
    thresholds,      \* self.thresholds: the smoothed series
    masks,           \* mask_movie: the list `masks`
    masksCorrected,  \* mask_movie: the list `masks_corrected`
    mask,            \* self.mask: what analyze_frames measures
    reads,           \* history: which masks the vesicle pass handed to remove_vesicles
    results,         \* analyze_frames: the list `results`
    remove_vesicles_toggle,  \* self.remove_vesicles_toggle
    raised,          \* the exception that ended the run, and the function raising it
    call,            \* a utility function under test and its arguments
    ret              \* what that call returned

vars == <<pc, movie, t, rawThresholds, thresholds, masks, masksCorrected,
          mask, reads, results, remove_vesicles_toggle, raised, call, ret>>

pipelineVars == <<pc, movie, t, rawThresholds, thresholds, masks,
                  masksCorrected, mask, reads, results,
                  remove_vesicles_toggle, raised>>

(***************************************************************************)
(* Bounds of the model.                                                    *)
(***************************************************************************)
MaxLen == 4        \* short vectors: every vector of 1..MaxLen samples
MaxSample == 2     \* samples of short vectors are 0..MaxSample
MaxLongLen == 22   \* long vectors (constant, ramp) have up to this many samples
MaxWindow == 3     \* windows 0..MaxWindow besides the ones the code passes

(***************************************************************************)
(* Python and numpy primitives.                                            *)
(***************************************************************************)
Range(s) == {s[i] : i \in DOMAIN s}

SetMax(S) == CHOOSE x \in S : \A y \in S : y <= x

SetMin(S) == CHOOSE x \in S : \A y \in S : x <= y

\* max(s) and min(s) of a non-empty sequence.
SeqMax(s) == LET R == Range(s) IN SetMax(R)

SeqMin(s) == LET R == Range(s) IN SetMin(R)

Max2(a, b) == IF a >= b THEN a ELSE b

Min2(a, b) == IF a <= b THEN a ELSE b

\* np.arange(a, b, 1) as a sequence: a, a+1, ..., b-1 (empty when b <= a).
Arange(a, b) == [i \in 1..Max2(b - a, 0) |-> a + i - 1]

\* The 0-based positions a Python slice v[a:b] of a sequence of n items
\* selects: a negative bound counts from the end, and both are clipped.
PySliceBound(x, n) == IF x < 0 THEN Max2(n + x, 0) ELSE Min2(x, n)

PySlice(v, a, b) ==
    LET lo == PySliceBound(a, Len(v))
        hi == PySliceBound(b, Len(v))
    IN  [i \in 1..Max2(hi - lo, 0) |-> v[lo + i]]

RECURSIVE SeqSum(_)
SeqSum(s) == IF s = <<>> THEN 0 ELSE s[1] + SeqSum(Tail(s))

\* np.mean of a slice: <<sum, count>>; count 0 is NaN.
Mean(s) == <<SeqSum(s), Len(s)>>

IsNaN(m) == m[2] = 0

\* A mean equals the integer x.
MeanEquals(m, x) == m[2] > 0 /\ m[1] = x * m[2]

(***************************************************************************)
(* kneedle (lines 958-978).                                                *)
(***************************************************************************)
\* difference_vector[x] = (gradient * x + intercept) - y, multiplied by the
\* positive x1 - x0 = len(vector).
KneedleX1(vector) == Len(vector)

\* The whole difference_vector.
KneedleDiffs(vector) ==
    LET y0 == SeqMax(vector)
        y1 == SeqMin(vector)
        x1 == KneedleX1(vector)
    IN  [x \in 1..Len(vector) |->
            (y1 - y0) * (x - 1) + (x1 - 0) * (y0 - vector[x])] \o <<>>

\* list.index(max(list)): the first position holding the maximum.
KneedleIndex(vector) ==
    LET difference_vector == KneedleDiffs(vector)
        top == SeqMax(difference_vector)
    IN  SetMin({i \in DOMAIN difference_vector :
                    difference_vector[i] = top}) - 1

Kneedle(vector) ==
    LET cutoff_index == KneedleIndex(vector)
    IN  <<cutoff_index, vector[cutoff_index + 1]>>

(***************************************************************************)
(* running_average (lines 982-1003).  The result is a record: raised tells *)
(* that indexes[0] raised IndexError (no window fits the vector), and      *)
(* otherwise indexes and smooth are the two arrays returned.               *)
(***************************************************************************)
HalfWindow(window) == window \div 2

\* Whether the call raises: with valid_mode False, indexes[0] is read, and
\* raises IndexError when no centred window fits into the n samples.
RunningAverageRaises(n, window, valid_mode) ==
    /\ ~valid_mode
    /\ Arange(HalfWindow(window), n - HalfWindow(window)) = <<>>

RunningAverage(vector, window, valid_mode) ==
    LET n == Len(vector)
        half_window == HalfWindow(window)
        indexes == Arange(half_window, n - half_window)
        smooth == [k \in DOMAIN indexes |->
                     Mean(PySlice(vector, indexes[k] - half_window,
                                          indexes[k] + half_window))]
    IN  IF valid_mode
        THEN [raised |-> FALSE, indexes |-> indexes, smooth |-> smooth]
        ELSE IF RunningAverageRaises(n, window, valid_mode)
        THEN [raised |-> TRUE, indexes |-> <<>>, smooth |-> <<>>]
        ELSE
          LET tail_left_indexes == Arange(0, indexes[1])
              tail_left_smooth ==
                [k \in DOMAIN tail_left_indexes |->
                   Mean(PySlice(vector,
                                Max2(0, tail_left_indexes[k] - half_window),
                                tail_left_indexes[k] + half_window))]
              tail_right_indexes == Arange(indexes[Len(indexes)] + 1, n)
              tail_right_smooth ==
                [k \in DOMAIN tail_right_indexes |->
                   Mean(PySlice(vector,
                                tail_right_indexes[k] - half_window,
                                Min2(n, tail_right_indexes[k] + half_window)))]
          IN  [raised |-> FALSE,
               indexes |-> tail_left_indexes \o indexes \o tail_right_indexes,
               smooth |-> tail_left_smooth \o smooth \o tail_right_smooth]

\* int(len(thresholds) * 0.2), the window threshold_movie passes (line 400).
ThresholdWindow(n) == n \div 5

\* The window of the pooled profile and of the threshold plot (lines 389, 351).
ProfileWindow == 10

\* The window of the result series (lines 597-628).
ResultWindow == 20

(***************************************************************************)
(* Images.  The model's frames and masks are images of FrameRows rows that *)
(* all hold the same pattern: a straight tubule lying along the rows, its  *)
(* regions being bands of columns.  An image is the sequence of its column *)
(* values; a band of w columns has FrameRows * w pixels.  On such images a *)
(* square filter window only acts along the columns (every row, and every  *)
(* reflected row, holds the same values), and a connected component is a   *)
(* maximal run of columns.                                                 *)
(***************************************************************************)
FrameRows == 100

\* A band image from (value, width) pairs.
RECURSIVE Bands(_)
Bands(s) ==
    IF s = <<>> THEN <<>>
    ELSE [i \in 1..s[1][2] |-> s[1][1]] \o Bands(Tail(s))

\* scipy.ndimage's default boundary mode "reflect": (b a | a b c | c b).
Reflect(j, n) ==
    IF j < 1 THEN 1 - j ELSE IF j > n THEN 2 * n + 1 - j ELSE j

\* The columns a window of `size` covers around column c: scipy centres a
\* window at size // 2, so an even window reaches one column further left.
WindowLo(size) == 0 - (size \div 2)

WindowHi(size) == size - (size \div 2) - 1

Window(c, size, n) ==
    {Reflect(c + k, n) : k \in WindowLo(size)..WindowHi(size)}

\* minimum_filter and maximum_filter of a 0/1 image.
MinFil(img, size) ==
    [c \in 1..Len(img) |->
        IF \A j \in Window(c, size, Len(img)) : img[j] = 1 THEN 1 ELSE 0] \o <<>>

MaxFil(img, size) ==
    [c \in 1..Len(img) |->
        IF \E j \in Window(c, size, Len(img)) : img[j] = 1 THEN 1 ELSE 0] \o <<>>

\* scipy.ndimage.label with the 8-connected structure np.ones((3, 3)):
\* components are numbered 1, 2, ... in scan order, 0 is the background.
RunStarts(img, c) ==
    Cardinality({j \in 1..c : img[j] # 0 /\ (j = 1 \/ img[j - 1] = 0)})

Label(img) ==
    [c \in 1..Len(img) |-> IF img[c] = 0 THEN 0 ELSE RunStarts(img, c)] \o <<>>

LabelsNum(labels) == IF labels = <<>> THEN 0 ELSE SeqMax(labels)

\* (labels == lb).sum()
Area(labels, lb) ==
    FrameRows * Cardinality({c \in DOMAIN labels : labels[c] = lb})

\* The labels 1..labels_num sorted by area, largest first.  list.sort is
\* stable, also with reverse=True: equal areas keep the label order.
SortedByArea(labels) ==
    LET num == LabelsNum(labels)
        area == [lb \in 1..num |-> Area(labels, lb)] \o <<>>
        before(a, b) ==
            \/ area[a] > area[b]
            \/ area[a] = area[b] /\ a < b
    IN  [k \in 1..num |->
            CHOOSE lb \in 1..num :
                Cardinality({o \in 1..num : before(o, lb)}) = k - 1]

\* scipy.ndimage.binary_fill_holes: a pixel outside the object is filled
\* unless it is connected to the image border.  In a band image every
\* column reaches the first row, which is on the border.
ReachesBorder(img, c) == FrameRows >= 1

FillHoles(img) ==
    [c \in 1..Len(img) |->
        IF img[c] = 1 \/ ~ReachesBorder(img, c) THEN 1 ELSE 0] \o <<>>

\* np.isin(labels, keep) as a 0/1 image.
IsIn(labels, keep) ==
    [c \in 1..Len(labels) |-> IF labels[c] \in keep THEN 1 ELSE 0]

\* (img == value) as a 0/1 image.
Equals(img, value) ==
    [c \in 1..Len(img) |-> IF img[c] = value THEN 1 ELSE 0]

(***************************************************************************)
(* structure_mask (lines 446-494).                                         *)
(***************************************************************************)
\* np.median of the member coordinates of component lb, doubled to stay an
\* integer: <<2 * row, 2 * column>> with the code's 0-based coordinates.
Centroid2(labels, lb) ==
    LET cols == {c \in DOMAIN labels : labels[c] = lb}
        lo == CHOOSE c \in cols : \A d \in cols : c <= d
        hi == CHOOSE c \in cols : \A d \in cols : d <= c
    IN  <<FrameRows - 1, (lo - 1) + (hi - 1)>>

\* The square of the distance of two doubled centroids; the code compares
\* the distances themselves, which order the same way.
Distance2(p, q) ==
    (p[1] - q[1]) * (p[1] - q[1]) + (p[2] - q[2]) * (p[2] - q[2])

\* A role assignment by area instead: the largest component is the lumen.
AssignRolesLargestIsLumen(loi, centroids) ==
    [bound |-> TRUE, bg1_label |-> loi[2], bg2_label |-> loi[3],
     lumen_label |-> loi[1]]

\* The role assignment of lines 459-479 for the labels of interest loi and
\* their centroids: which of the branches is taken and what it binds.
AssignRoles(loi, centroids) ==
    LET ab_distance == Distance2(centroids[1], centroids[2])
        ac_distance == Distance2(centroids[1], centroids[3])
        bc_distance == Distance2(centroids[2], centroids[3])
    IN  IF ab_distance > ac_distance /\ ab_distance > bc_distance
        THEN [bound |-> TRUE, bg1_label |-> loi[1], bg2_label |-> loi[2],
              lumen_label |-> loi[3]]
        ELSE IF ac_distance > ab_distance /\ ac_distance > bc_distance
        THEN [bound |-> TRUE, bg1_label |-> loi[1], bg2_label |-> loi[3],
              lumen_label |-> loi[2]]
        ELSE IF bc_distance > ab_distance /\ bc_distance > ac_distance
        THEN [bound |-> TRUE, bg1_label |-> loi[2], bg2_label |-> loi[3],
              lumen_label |-> loi[1]]
        ELSE [bound |-> FALSE, bg1_label |-> 0, bg2_label |-> 0,
              lumen_label |-> 0]

ClosingRadius == 10

\* new_mask with the lumen written first, so that the backgrounds win.
NewMaskLumenFirst(labels, bg1_label, bg2_label, lumen_mask) ==
    [c \in 1..Len(labels) |->
        IF labels[c] = bg2_label THEN 2
        ELSE IF labels[c] = bg1_label THEN 1
        ELSE IF lumen_mask[c] = 1 THEN 3
        ELSE 0] \o <<>>

\* new_mask: zeros, then 1 on bg1, 2 on bg2 and, last, 3 on the lumen mask.
NewMask(labels, bg1_label, bg2_label, lumen_mask) ==
    [c \in 1..Len(labels) |->
        IF lumen_mask[c] = 1 THEN 3
        ELSE IF labels[c] = bg2_label THEN 2
        ELSE IF labels[c] = bg1_label THEN 1
        ELSE 0] \o <<>>

\* The result is a record: raised is "" when a mask is returned, and
\* otherwise the exception: IndexError when centroids[1] or centroids[2]
\* does not exist (fewer than three components), UnboundLocalError when no
\* branch bound the labels.
StructureMask(unstructured_mask) ==
    LET labels == Label(unstructured_mask)
        sorted == SortedByArea(labels)
        loi == SubSeq(sorted, 1, Min2(3, Len(sorted)))
        centroids == [k \in DOMAIN loi |-> Centroid2(labels, loi[k])]
        roles == AssignRoles(loi, centroids)
        lumen_mask ==
            FillHoles(MinFil(MaxFil(Equals(labels, roles.lumen_label),
                                    ClosingRadius), ClosingRadius))
        none == [raised |-> "IndexError", labels |-> labels, loi |-> loi,
                 lumen_mask |-> <<>>, bg1_label |-> 0, bg2_label |-> 0,
                 lumen_label |-> 0, mask |-> <<>>]
    IN  IF Len(loi) < 3
        THEN none
        ELSE IF ~roles.bound
        THEN [none EXCEPT !.raised = "UnboundLocalError"]
        ELSE [raised |-> "", labels |-> labels, loi |-> loi,
              lumen_mask |-> lumen_mask,
              bg1_label |-> roles.bg1_label, bg2_label |-> roles.bg2_label,
              lumen_label |-> roles.lumen_label,
              mask |-> NewMask(labels, roles.bg1_label, roles.bg2_label,
                               lumen_mask)]

(***************************************************************************)
(* get_points_in_between (lines 931-954).  Points are <<row, column>>,     *)
(* 0-based as in the code.                                                 *)
(***************************************************************************)
\* round(x ** 0.5) for an integer x >= 0: the square root of an integer is
\* never half-way between two integers.
RoundSqrt(x) ==
    IF x = 0 THEN 0
    ELSE CHOOSE r \in 1..x : r * (r - 1) < x /\ x <= r * (r + 1)

\* Python's round(p / q) for q > 0: to the nearest integer, a tie to the
\* even one.
RoundDiv(p, q) ==
    LET f == p \div q
        r == p - f * q
    IN  IF 2 * r < q THEN f
        ELSE IF 2 * r > q THEN f + 1
        ELSE IF f % 2 = 0 THEN f ELSE f + 1

GetPointsInBetween(start, stop) ==
    LET distance ==
            RoundSqrt((stop[1] - start[1]) * (stop[1] - start[1])
                      + (stop[2] - start[2]) * (stop[2] - start[2]))
        x_shift == stop[1] - start[1]
        y_shift == stop[2] - start[2]
        points ==
            [k \in 1..distance |->
                <<start[1] + RoundDiv((k - 1) * x_shift, distance),
                  start[2] + RoundDiv((k - 1) * y_shift, distance)>>]
    IN  IF \E k \in 1..distance : points[k] = stop
        THEN points \o <<>>
        ELSE points \o <<stop>>

(***************************************************************************)
(* threshold_movie, the body of its loop (lines 377-397).                  *)
(***************************************************************************)
\* numpy's index i of an axis of n entries: a negative index counts from
\* the end; -1 marks an index out of bounds (IndexError).
NumpyIndex(i, n) ==
    IF 0 <= i /\ i < n THEN i
    ELSE IF 0 - n <= i /\ i < 0 THEN n + i
    ELSE 0 - 1

\* m[row, column] of a band image.
PixelAt(m, point) == m[NumpyIndex(point[2], Len(m)) + 1]

\* The smoothed profile keeps its means exact as integers: each is a sum
\* of count <= ProfileWindow samples, and count divides ProfileScale.
ProfileScale == 5 * 7 * 8 * 9

ScaledMean(mean) == mean[1] * (ProfileScale \div mean[2])

\* np.sort(ax)[::-1]
RECURSIVE SortDescFrom(_, _)
SortDescFrom(v, vals) ==
    IF vals = {} THEN <<>>
    ELSE LET x == SetMax(vals)
             k == Cardinality({i \in DOMAIN v : v[i] = x})
         IN  [i \in 1..k |-> x] \o SortDescFrom(v, vals \ {x})

SortDesc(v) == LET R == Range(v) IN SortDescFrom(v, R)

\* The coordinates ax_1 reads: row rows // 2, every column (line 378).
Ax1Pnts(rows, cols) == [k \in 1..cols |-> <<rows \div 2, k - 1>>]

\* The coordinates ax_2 reads: every row, column cols // 2 (line 379).
Ax2Pnts(rows, cols) == [k \in 1..rows |-> <<k - 1, cols \div 2>>]

\* ax_3_pnts (line 380): from (0, 0) to np.array(m.shape) - 1.
Ax3Pnts(rows, cols) == GetPointsInBetween(<<0, 0>>, <<rows - 1, cols - 1>>)

\* ax_4_pnts (line 382): from (rows - 1, 0) to np.array([0, cols]) - 1,
\* which is (-1, cols - 1).
Ax4Pnts(rows, cols) ==
    GetPointsInBetween(<<rows - 1, 0>>, <<0 - 1, cols - 1>>)

\* The four profiles of frame m, pooled (lines 378-386).
AxisProfiles(m) ==
    LET rows == FrameRows
        cols == Len(m)
        ax_1 == m
        ax_2 == [r \in 1..rows |-> m[(cols \div 2) + 1]]
        ax_3_pnts == Ax3Pnts(rows, cols)
        ax_3 == [k \in DOMAIN ax_3_pnts |-> PixelAt(m, ax_3_pnts[k])]
        ax_4_pnts == Ax4Pnts(rows, cols)
        ax_4 == [k \in DOMAIN ax_4_pnts |-> PixelAt(m, ax_4_pnts[k])]
    IN  ax_1 \o ax_2 \o ax_3 \o ax_4

\* The threshold of one frame, times ProfileScale; raised when the pooled
\* profile is too short for the smoothing window.
FrameThreshold(m) ==
    LET ax == AxisProfiles(m)
        smoothed == RunningAverage(ax, ProfileWindow, FALSE)
        scaled == [k \in DOMAIN smoothed.smooth |->
                      ScaledMean(smoothed.smooth[k])] \o <<>>
        sorted == SortDesc(scaled)
    IN  IF smoothed.raised
        THEN [raised |-> "IndexError", threshold |-> 0]
        ELSE [raised |-> "", threshold |-> Kneedle(sorted)[2]]

(***************************************************************************)
(* mask_movie, the body of its first loop (lines 178-212).                 *)
(***************************************************************************)
CleanWindow == 3

MaxPlainLabels == 5

MinObjectArea == 2500

FillWindow == 5

FillRounds == 3

\* m > threshold for the mean threshold <<sum, count>> of scaled values; a
\* comparison with NaN is False.
Greater(pixel, threshold) ==
    threshold[2] > 0 /\ pixel * ProfileScale * threshold[2] > threshold[1]

\* The areas of the labels in `sorted`, in that order.
AreasOf(labels, sorted) == [k \in DOMAIN sorted |-> Area(labels, sorted[k])]

RECURSIVE FillRound(_, _)
FillRound(img, rounds) ==
    IF rounds = 0 THEN img
    ELSE FillRound(MaxFil(MinFil(img, FillWindow), FillWindow), rounds - 1)

\* labels_areas after the sort of line 187: (label, area) pairs, largest
\* area first.
LabelsAreas(labels) ==
    LET sorted == SortedByArea(labels)
    IN  [k \in DOMAIN sorted |-> <<sorted[k], Area(labels, sorted[k])>>]

\* Lines 190-196: how many entries of labels_areas are looked at.
FilterIndex(labels_areas) ==
    IF Len(labels_areas) > MaxPlainLabels
    THEN Kneedle([k \in DOMAIN labels_areas |-> labels_areas[k][2]])[1]
    ELSE Len(labels_areas)

GoodLabelsFromFloor(labels_areas, index) ==
    {labels_areas[k][1] : k \in
        {j \in 1..index : labels_areas[j][2] >= MinObjectArea}}

\* good_labels of line 198.
GoodLabels(labels_areas, index) ==
    {labels_areas[k][1] : k \in
        {j \in 1..index : labels_areas[j][2] > MinObjectArea}}

\* Lines 201-202: ones, with the pixels of the good labels set to 0.
RedefinedMask(labels, good_labels) ==
    [c \in 1..Len(labels) |-> IF labels[c] \in good_labels THEN 0 ELSE 1]

\* The image that is handed to structure_mask.
UnstructuredMask(m, threshold) ==
    LET initial == [c \in 1..Len(m) |->
                       IF Greater(m[c], threshold) THEN 1 ELSE 0]
        cleaned == MaxFil(MinFil(initial, CleanWindow), CleanWindow)
        labels == Label(cleaned)
        labels_areas == LabelsAreas(labels)
        index == FilterIndex(labels_areas)
        good_labels == GoodLabels(labels_areas, index)
        redefined == RedefinedMask(labels, good_labels)
    IN  FillRound(redefined, FillRounds)

MaskFrame(m, threshold) == StructureMask(UnstructuredMask(m, threshold))

(***************************************************************************)
(* remove_vesicles (lines 300-339).                                        *)
(***************************************************************************)
LumenLabel == 3

MinVesicleSize == 500

VesicleErodeWindow == 5

VesicleCloseWindow == 3

\* labels_areas[:index], the labels the knee keeps.
KeptByKnee(sorted, index) == {sorted[k] : k \in 1..index}

PossibleVesiclesOfLostLumen(m1, m2) ==
    LET lumen_1 == Equals(m1, LumenLabel)
        lumen_2 == Equals(m2, LumenLabel)
    IN  MinFil([c \in 1..Len(m1) |->
                   IF lumen_1[c] - lumen_2[c] = 1 THEN 1 ELSE 0],
               VesicleErodeWindow)

\* possible_vesicles after the erosion (lines 304-310).
PossibleVesicles(m1, m2) ==
    LET lumen_1 == Equals(m1, LumenLabel)
        lumen_2 == Equals(m2, LumenLabel)
    IN  MinFil([c \in 1..Len(m1) |->
                   IF lumen_1[c] - lumen_2[c] = 0 - 1 THEN 1 ELSE 0],
               VesicleErodeWindow)

RemoveVesicles(m1, m2, min_size) ==
    LET lumen_1 == Equals(m1, LumenLabel)
        possible_vesicles == PossibleVesicles(m1, m2)
        labels == Label(possible_vesicles)
        sorted == SortedByArea(labels)
        index == Kneedle(AreasOf(labels, sorted))[1]
        good_labels == {lb \in KeptByKnee(sorted, index) :
                           Area(labels, lb) >= min_size}
        marked == [c \in 1..Len(m1) |->
                      IF labels[c] \in good_labels THEN 1 ELSE lumen_1[c]]
        closed == FillHoles(MinFil(MaxFil(marked, VesicleCloseWindow),
                                   VesicleCloseWindow))
    IN  IF LabelsNum(labels) = 0
        THEN m1
        ELSE [c \in 1..Len(m1) |->
                 IF closed[c] = 1 THEN LumenLabel ELSE m1[c]] \o <<>>

(***************************************************************************)
(* mask_movie, the vesicle pass (lines 217-242).                           *)
(***************************************************************************)
time_deltas == <<0 - 10, 0 - 5, 5, 10>>

\* masks[i] of a Python list of n items: the 0-based position read, or -1
\* for IndexError.  A negative i counts from the end of the list.
PyListIndex(i, n) ==
    IF 0 <= i /\ i < n THEN i
    ELSE IF 0 - n <= i /\ i < 0 THEN n + i
    ELSE 0 - 1

\* m_corrected_tmp for frame f and offset td: what remove_vesicles returned,
\* or np.zeros when the call raised.
ComparisonResult(all, f, td) ==
    LET src == PyListIndex(f + td, Len(all))
    IN  IF src < 0
        THEN [c \in 1..Len(all[f + 1]) |-> 0]
        ELSE RemoveVesicles(all[f + 1], all[src + 1], MinVesicleSize)

\* m_corrected[m_corrected_tmp == 3] = 3, one comparison after another.
RECURSIVE ApplyComparisons(_, _, _, _)
ApplyComparisons(m_corrected, all, f, k) ==
    IF k > Len(time_deltas) THEN m_corrected
    ELSE LET tmp == ComparisonResult(all, f, time_deltas[k])
         IN  ApplyComparisons(
                 [c \in 1..Len(m_corrected) |->
                     IF tmp[c] = 3 THEN 3 ELSE m_corrected[c]] \o <<>>,
                 all, f, k + 1)

\* A pass that keeps the last comparison only: m_corrected = m_corrected_tmp.
CorrectedFrameLastOnly(all, f) ==
    ComparisonResult(all, f, time_deltas[Len(time_deltas)])

CorrectedFrame(all, f) == ApplyComparisons(all[f + 1], all, f, 1)

\* The frames the comparisons of frame f read as m2.
FrameReads(all, f) ==
    {[frame |-> f, td |-> time_deltas[k],
      src |-> PyListIndex(f + time_deltas[k], Len(all))] :
        k \in DOMAIN time_deltas}

(***************************************************************************)
(* sort_coords (lines 1007-1068).  pnts is a sequence of <<row, column>>   *)
(* points; the indices are 0-based as in the code.                         *)
(***************************************************************************)
NeighborsNum == 3

\* The square of the Euclidean distance NearestNeighbors orders by.
PointDistance2(p, q) ==
    (p[1] - q[1]) * (p[1] - q[1]) + (p[2] - q[2]) * (p[2] - q[2])

\* The rows kneighbors may return for point i: the three nearest points of
\* pnts (the point itself among them) by distance; the order of points at
\* the same distance is the kd-tree's, any of them here.
KNNRows(pnts, i) ==
    LET n == Len(pnts)
        d(j) == PointDistance2(pnts[i + 1], pnts[j + 1])
    IN  {row \in [1..NeighborsNum -> 0..(n - 1)] :
            /\ \A a, b \in 1..NeighborsNum : a < b =>
                   row[a] # row[b] /\ d(row[a]) <= d(row[b])
            /\ \A j \in 0..(n - 1) :
                   (\A a \in 1..NeighborsNum : row[a] # j) =>
                       d(row[NeighborsNum]) <= d(j)}

\* The arrays kneighbors may return for the points from i on.
RECURSIVE KNNFrom(_, _)
KNNFrom(pnts, i) ==
    IF i >= Len(pnts) THEN {<<>>}
    ELSE {<<row>> \o rest : row \in KNNRows(pnts, i),
                            rest \in KNNFrom(pnts, i + 1)}

KNNResults(pnts) == KNNFrom(pnts, 0)

\* NearestNeighbors raises ValueError for fewer samples than neighbors.
SortCoordsRaises(pnts) == Len(pnts) < NeighborsNum

\* sorted_idx = indices[0, [1, 0, 2]].tolist()
FirstSortedIdx(indices) ==
    <<indices[1][2], indices[1][1], indices[1][3]>>

InSeq(x, seq) == \E k \in DOMAIN seq : seq[k] = x

\* A walk taken without looking at what sorted_idx holds already.
WalkNextUnchecked(sorted_idx, indices) ==
    indices[sorted_idx[Len(sorted_idx)] + 1][2]

\* One turn of a walk (lines 1025-1040): the index it appends, or -1 when
\* it clears the toggle.
WalkNext(sorted_idx, indices) ==
    LET i == sorted_idx[Len(sorted_idx)]
        new_idx == <<indices[i + 1][2], indices[i + 1][3]>>
    IN  IF ~InSeq(new_idx[1], sorted_idx) THEN new_idx[1]
        ELSE IF ~InSeq(new_idx[2], sorted_idx) THEN new_idx[2]
        ELSE 0 - 1

\* sorted_idx[::-1]
Reversed(seq) == [k \in DOMAIN seq |-> seq[Len(seq) + 1 - k]]

\* A whole walk: turns until the toggle is cleared.
RECURSIVE Walk(_, _)
Walk(sorted_idx, indices) ==
    LET next_i == WalkNext(sorted_idx, indices)
    IN  IF next_i < 0 THEN sorted_idx
        ELSE Walk(Append(sorted_idx, next_i), indices)

\* sorted_idx as sort_coords leaves it, for the kneighbors array indices.
SortedIdx(indices) ==
    Walk(Reversed(Walk(FirstSortedIdx(indices), indices)), indices)

\* pnts[sorted_idx]
TakePoints(pnts, sorted_idx) ==
    [k \in DOMAIN sorted_idx |-> pnts[sorted_idx[k] + 1]]

SortCoords(pnts, indices) == TakePoints(pnts, SortedIdx(indices))

(***************************************************************************)
(* measure_tubule, the areas (lines 652-654), with the default scale 1.    *)
(***************************************************************************)
CountOf(m, label) ==
    FrameRows * Cardinality({c \in DOMAIN m : m[c] = label})

MeasureAreas(m, frame) ==
    [frame |-> frame, lumen_area |-> CountOf(m, LumenLabel),
     cells_area |-> CountOf(m, 0)]

(***************************************************************************)
(* measure_tubule, the widths (lines 656-766), with the default scale 1.   *)
(* m is a band image of `rows` rows; points are <<row, column>>, 0-based.  *)
(***************************************************************************)
Bg1Label == 1
Bg2Label == 2
OutlineWindow == 3
ProfileMark == 5

\* np.where((m == label) != minfil(m == label, (3, 3))): the points of the
\* label that the erosion removes, row by row.
RawOutline(m, rows, label) ==
    LET is == Equals(m, label) \o <<>>
        eroded == MinFil(is, OutlineWindow)
        cols == {c \in DOMAIN m : is[c] # eroded[c]}
        nth(k) == CHOOSE c \in cols : Cardinality({d \in cols : d < c}) = k
        width == Cardinality(cols)
    IN  [k \in 1..(rows * width) |->
            <<(k - 1) \div width, nth((k - 1) % width) - 1>>]

\* What sort_coords may return for an outline, whatever the order of the
\* neighbors at the same distance.
SortedOutlines(outline) ==
    {SortCoords(outline, indices) : indices \in KNNResults(outline)}

\* pnts[np.argsort(pnts[:, axis])]: the points in the order of one of their
\* coordinates; points with the same coordinate come in any order.
ArgsortedBy(pnts, axis) ==
    IF \A a, b \in DOMAIN pnts : a # b => pnts[a][axis] # pnts[b][axis]
    THEN {[k \in DOMAIN pnts |->
              pnts[CHOOSE a \in DOMAIN pnts :
                      Cardinality({b \in DOMAIN pnts :
                                      pnts[b][axis] < pnts[a][axis]}) = k - 1]]}
    ELSE {[k \in DOMAIN pnts |-> pnts[order[k]]] :
             order \in {f \in [DOMAIN pnts -> DOMAIN pnts] :
                           /\ \A a, b \in DOMAIN pnts : a # b => f[a] # f[b]
                           /\ \A a, b \in DOMAIN pnts : a < b =>
                                  pnts[f[a]][axis] <= pnts[f[b]][axis]}}

\* Lines 670-679: both outlines are ordered along the axis on which the
\* first one varies more, relative to the shape of the image.
OrderedOutlines(rows, cols, sorted_1, sorted_2) ==
    LET last == sorted_1[Len(sorted_1)]
        first == sorted_1[1]
        dyTimes == (IF last[1] < first[1] THEN first[1] - last[1]
                    ELSE last[1] - first[1]) * cols
        dxTimes == (IF last[2] < first[2] THEN first[2] - last[2]
                    ELSE last[2] - first[2]) * rows
        axis == IF dyTimes > dxTimes THEN 1 ELSE 2
    IN  ArgsortedBy(sorted_1, axis) \X ArgsortedBy(sorted_2, axis)

\* Lines 682-694: the longer outline is cut to the length of the shorter.
AlignedOutlines(outline_1, outline_2) ==
    LET n1 == Len(outline_1)
        n2 == Len(outline_2)
    IN  IF n1 > n2
        THEN <<SubSeq(outline_1, ((n1 - n2) \div 2) + 1,
                      ((n1 - n2) \div 2) + n2), outline_2>>
        ELSE IF n2 > n1
        THEN <<outline_1, SubSeq(outline_2, ((n2 - n1) \div 2) + 1,
                                 ((n2 - n1) \div 2) + n1)>>
        ELSE <<outline_1, outline_2>>

\* n_measurements (line 703): the cumulative length of an outline is the
\* index of its point.
NMeasurements(outline_1, outline_2, spacing) ==
    Min2((Len(outline_1) - 1) \div spacing, (Len(outline_2) - 1) \div spacing)

\* The point of an outline that sample i uses (lines 707-715): the last one
\* whose cumulative length is at most i * spacing.
SamplePoint(outline, i, spacing) ==
    outline[Min2(i * spacing, Len(outline) - 1) + 1]

\* A border test that forgets the last row and the last column.
OnBorderFirstOnly(point, rows, cols) == point[1] = 0 \/ point[2] = 0

\* Lines 718 and 722: the point touches an edge of the image.
OnBorder(point, rows, cols) ==
    \/ point[1] = 0
    \/ point[1] = rows - 1
    \/ point[2] = 0
    \/ point[2] = cols - 1

\* One turn of the loop of lines 704-748 for sample i: whether it is left
\* by a continue, and otherwise the profile and the widths it appends.
Sample(m, rows, outline_1, outline_2, spacing, i) ==
    LET outline_1_pnt == SamplePoint(outline_1, i, spacing)
        outline_2_pnt == SamplePoint(outline_2, i, spacing)
        profile_pnts == GetPointsInBetween(outline_1_pnt, outline_2_pnt)
        profile == [k \in DOMAIN profile_pnts |-> PixelAt(m, profile_pnts[k])]
        lumen_coords == {k - 1 : k \in {j \in DOMAIN profile :
                                           profile[j] = LumenLabel}}
        skip == [skipped |-> TRUE, profile_pnts |-> <<>>,
                 tubule_width |-> 0, lumen_width |-> 0]
    IN  IF \/ OnBorder(outline_1_pnt, rows, Len(m))
           \/ OnBorder(outline_2_pnt, rows, Len(m))
        THEN skip
        ELSE IF lumen_coords = {}
        THEN skip
        ELSE [skipped |-> FALSE, profile_pnts |-> profile_pnts,
              tubule_width |-> Len(profile),
              lumen_width |-> SetMax(lumen_coords) - SetMin(lumen_coords)]

\* measure_tubule from the outlines as ordered and aligned on.  The widths
\* of the cells are kept doubled (line 737 halves them), the means as
\* <<sum, count>>.
MeasureWidths(m, rows, spacing, outline_1, outline_2) ==
    LET n_measurements == NMeasurements(outline_1, outline_2, spacing)
        samples == [k \in 1..(n_measurements + 1) |->
                       Sample(m, rows, outline_1, outline_2, spacing, k - 1)]
                   \o <<>>
        kept == SelectSeq(samples, LAMBDA x : ~x.skipped)
        tubule_measurements == [k \in DOMAIN kept |-> kept[k].tubule_width]
        lumen_measurements == [k \in DOMAIN kept |-> kept[k].lumen_width]
        cells_measurements2 ==
            [k \in DOMAIN kept |-> kept[k].tubule_width - kept[k].lumen_width]
        marked == UNION {Range(kept[k].profile_pnts) : k \in DOMAIN kept}
        outlined == Range(outline_1) \cup Range(outline_2)
        diagnostic_m ==
            [point \in (0..(rows - 1)) \X (0..(Len(m) - 1)) |->
                IF point \in outlined THEN 3
                ELSE IF point \in marked THEN ProfileMark
                ELSE IF m[point[2] + 1] # 0 THEN 1
                ELSE 0]
    IN  [tubule_outline_1 |-> outline_1,
         tubule_outline_2 |-> outline_2,
         tubule_measurements |-> tubule_measurements,
         lumen_measurements |-> lumen_measurements,
         cells_measurements2 |-> cells_measurements2,
         diagnostic_m |-> diagnostic_m,
         results |-> [width_measurements |-> n_measurements,
                      tubule_mean_width |-> Mean(tubule_measurements),
                      lumen_mean_width |-> Mean(lumen_measurements),
                      cells_mean_width2 |-> Mean(cells_measurements2)]]

\* What measure_tubule may return for the mask m of `rows` rows.
MeasureTubule(m, rows, spacing) ==
    {MeasureWidths(m, rows, spacing,
                   AlignedOutlines(pair[1], pair[2])[1],
                   AlignedOutlines(pair[1], pair[2])[2]) :
        pair \in UNION {OrderedOutlines(rows, Len(m), sorted_1, sorted_2) :
                           sorted_1 \in SortedOutlines(
                                            RawOutline(m, rows, Bg1Label)),
                           sorted_2 \in SortedOutlines(
                                            RawOutline(m, rows, Bg2Label))}}

(***************************************************************************)
(* The movies of the model.  A frame shows, from left to right, a          *)
(* background band, a band of cells, the lumen, cells and background;      *)
(* background and lumen are dark (0), cells and vesicles bright (2).       *)
(***************************************************************************)
BgWidth == 6
CellWidth == 30
LumenWidth == 30
BigVesicle == 10     \* a vesicle band at the left edge of the lumen
SmallVesicle == 9    \* a vesicle band at the right edge of the lumen

Scene(kind) ==
    CASE kind = "normal" ->
           Bands(<<<<0, BgWidth>>, <<2, CellWidth>>, <<0, LumenWidth>>,
                   <<2, CellWidth>>, <<0, BgWidth>>>>)
      [] kind = "vesicles" ->
           Bands(<<<<0, BgWidth>>, <<2, CellWidth + BigVesicle>>,
                   <<0, LumenWidth - BigVesicle - SmallVesicle>>,
                   <<2, CellWidth + SmallVesicle>>, <<0, BgWidth>>>>)
      [] kind = "vesicle" ->
           Bands(<<<<0, BgWidth>>, <<2, CellWidth + BigVesicle>>,
                   <<0, LumenWidth - BigVesicle>>,
                   <<2, CellWidth>>, <<0, BgWidth>>>>)
      [] kind = "nolumen" ->
           Bands(<<<<0, BgWidth>>, <<2, CellWidth + LumenWidth + CellWidth>>,
                   <<0, BgWidth>>>>)

SceneKinds == {"vesicles", "vesicle", "nolumen"}

\* Frame counts: too few frames for the threshold plot's window, enough for
\* it but not for the result window, and enough for both.
FewFrames == 3
SomeFrames == 11
ManyFrames == 21

FrameCounts == {FewFrames, SomeFrames, ManyFrames}

\* Which frames show the special scene: the first, one in the middle, or
\* every fifth.
SpecialFrames(n) ==
    {{0}, {n \div 2}, {f \in 0..(n - 1) : f % 5 = 0}}

MovieOf(n, kind, special) ==
    [i \in 1..n |-> Scene(IF (i - 1) \in special THEN kind ELSE "normal")]

\* The runs: a movie and the remove_vesicles toggle.
Runs ==
    {<<MovieOf(n, "normal", {}), toggle>> :
        n \in FrameCounts, toggle \in BOOLEAN}
    \cup {<<MovieOf(SomeFrames, kind, special), TRUE>> :
            kind \in SceneKinds, special \in SpecialFrames(SomeFrames)}
    \cup {<<MovieOf(ManyFrames, "vesicles", {0}), TRUE>>}

(***************************************************************************)
(* process_movie (lines 264-296) with masking_toggle set and               *)
(* cleanup_toggle unset: threshold_movie, mask_movie, analyze_frames.      *)
(***************************************************************************)
NoCall == [fn |-> "process_movie"]

NoError == [by |-> "", error |-> ""]

NoRet == [done |-> FALSE]

Init ==
    /\ pc = "threshold"
    /\ \E run \in Runs :
          movie = run[1] /\ remove_vesicles_toggle = run[2]
    /\ t = 0
    /\ rawThresholds = <<>>
    /\ thresholds = <<>>
    /\ masks = <<>>
    /\ masksCorrected = <<>>
    /\ mask = <<>>
    /\ reads = {}
    /\ results = <<>>
    /\ raised = NoError
    /\ call = NoCall
    /\ ret = NoRet

\* The loops run while a frame is left.
FramesLeft == t < Len(movie)

\* threshold_movie, one turn of its loop (lines 375-397).
ThresholdFrame ==
    /\ pc = "threshold"
    /\ FramesLeft
    /\ LET r == FrameThreshold(movie[t + 1])
       IN  IF r.raised # ""
           THEN /\ pc' = "raised"
                /\ raised' = [by |-> "running_average", error |-> r.raised]
                /\ UNCHANGED <<t, rawThresholds>>
           ELSE /\ rawThresholds' = Append(rawThresholds, r.threshold)
                /\ t' = t + 1
                /\ UNCHANGED <<pc, raised>>
    /\ UNCHANGED <<movie, thresholds, masks, masksCorrected, mask, reads,
                   results, remove_vesicles_toggle, call, ret>>

\* A loop left after its first frame.
ThresholdLoopDoneEarly == t >= 1

\* threshold_movie leaves its loop, and mask_movie is only called after
\* threshold_movie returned (lines 282-285).
ThresholdLoopDone == ~FramesLeft

\* threshold_movie after its loop (lines 399-405): the series is smoothed,
\* save_threshold_diagnostics smooths it once more for its plot, and only
\* then self.thresholds is set.
SmoothThresholds ==
    /\ pc = "threshold"
    /\ ThresholdLoopDone
    /\ LET n == Len(rawThresholds)
           smoothed == RunningAverage(rawThresholds, ThresholdWindow(n), FALSE)
       IN  IF \/ smoothed.raised
              \/ RunningAverageRaises(n, ProfileWindow, FALSE)
           THEN /\ pc' = "raised"
                /\ raised' = [by |-> "running_average", error |-> "IndexError"]
                /\ UNCHANGED <<t, thresholds>>
           ELSE /\ thresholds' = smoothed.smooth
                /\ pc' = "mask"
                /\ t' = 0
                /\ UNCHANGED raised
    /\ UNCHANGED <<movie, rawThresholds, masks, masksCorrected, mask, reads,
                   results, remove_vesicles_toggle, call, ret>>

\* mask_movie, one turn of its first loop (lines 176-214).
MaskNextFrame ==
    /\ pc = "mask"
    /\ FramesLeft
    /\ LET r == MaskFrame(movie[t + 1], thresholds[t + 1])
       IN  IF r.raised # ""
           THEN /\ pc' = "raised"
                /\ raised' = [by |-> "structure_mask", error |-> r.raised]
                /\ UNCHANGED <<t, masks>>
           ELSE /\ masks' = Append(masks, r.mask)
                /\ t' = t + 1
                /\ UNCHANGED <<pc, raised>>
    /\ UNCHANGED <<movie, rawThresholds, thresholds, masksCorrected, mask,
                   reads, results, remove_vesicles_toggle, call, ret>>

\* mask_movie without the vesicle pass (lines 240-260).
FinishMasking ==
    /\ pc = "mask"
    /\ ~FramesLeft
    /\ ~remove_vesicles_toggle
    /\ masksCorrected' = masks
    /\ mask' = masks
    /\ pc' = "measure"
    /\ t' = 0
    /\ UNCHANGED <<movie, rawThresholds, thresholds, masks, reads, results,
                   remove_vesicles_toggle, raised, call, ret>>

\* mask_movie enters the vesicle pass (lines 217-221).
StartVesicles ==
    /\ pc = "mask"
    /\ ~FramesLeft
    /\ remove_vesicles_toggle
    /\ masksCorrected' = <<>>
    /\ pc' = "vesicle"
    /\ t' = 0
    /\ UNCHANGED <<movie, rawThresholds, thresholds, masks, mask, reads,
                   results, remove_vesicles_toggle, raised, call, ret>>

\* The vesicle pass, one frame (lines 222-238).
VesicleFrame ==
    /\ pc = "vesicle"
    /\ FramesLeft
    /\ masksCorrected' = Append(masksCorrected, CorrectedFrame(masks, t))
    /\ reads' = reads \cup FrameReads(masks, t)
    /\ t' = t + 1
    /\ UNCHANGED <<pc, movie, rawThresholds, thresholds, masks, mask,
                   results, remove_vesicles_toggle, raised, call, ret>>

\* mask_movie after the vesicle pass (lines 244-260).
FinishVesicles ==
    /\ pc = "vesicle"
    /\ ~FramesLeft
    /\ mask' = masksCorrected
    /\ pc' = "measure"
    /\ t' = 0
    /\ UNCHANGED <<movie, rawThresholds, thresholds, masks, masksCorrected,
                   reads, results, remove_vesicles_toggle, raised, call, ret>>

\* analyze_frames, one turn of its loop (lines 576-582).
MeasureFrame ==
    /\ pc = "measure"
    /\ t < Len(mask)
    /\ results' = Append(results, MeasureAreas(mask[t + 1], t))
    /\ t' = t + 1
    /\ UNCHANGED <<pc, movie, rawThresholds, thresholds, masks,
                   masksCorrected, mask, reads, remove_vesicles_toggle,
                   raised, call, ret>>

\* data / data.max() of lines 624-625 for the lumen areas, each quotient
\* kept as <<numerator, denominator>>.
NormalizedAreas(rows) ==
    LET data == [k \in DOMAIN rows |-> rows[k].lumen_area]
        norm_factor == SeqMax(data)
    IN  [k \in DOMAIN rows |->
            [frame |-> rows[k].frame,
             lumen_area |-> rows[k].lumen_area,
             cells_area |-> rows[k].cells_area,
             lumen_normalized_area |-> <<data[k], norm_factor>>]]

\* analyze_frames after its loop (lines 584-639): every series is smoothed
\* with the result window, and the normalized columns are added.
PostProcess ==
    /\ pc = "measure"
    /\ t = Len(mask)
    /\ IF RunningAverageRaises(Len(results), ResultWindow, FALSE)
       THEN /\ pc' = "raised"
            /\ raised' = [by |-> "running_average", error |-> "IndexError"]
            /\ UNCHANGED results
       ELSE /\ pc' = "done"
            /\ results' = NormalizedAreas(results)
            /\ UNCHANGED raised
    /\ UNCHANGED <<movie, t, rawThresholds, thresholds, masks,
                   masksCorrected, mask, reads, remove_vesicles_toggle,
                   call, ret>>

Next ==
    \/ ThresholdFrame
    \/ SmoothThresholds
    \/ MaskNextFrame
    \/ FinishMasking
    \/ StartVesicles
    \/ VesicleFrame
    \/ FinishVesicles
    \/ MeasureFrame
    \/ PostProcess

Spec == Init /\ [][Next]_vars

(***************************************************************************)
(* Inputs of the utility functions.                                        *)
(***************************************************************************)
ShortVectors ==
    UNION {[1..n -> 0..MaxSample] : n \in 1..MaxLen}

LongVectors ==
    {[i \in 1..n |-> c] : n \in (MaxLen + 1)..MaxLongLen, c \in 1..MaxSample}
    \cup {[i \in 1..n |-> n - i] : n \in (MaxLen + 1)..MaxLongLen}

idlePipeline ==
    /\ pc = "idle"
    /\ movie = <<>>
    /\ t = 0
    /\ rawThresholds = <<>>
    /\ thresholds = <<>>
    /\ masks = <<>>
    /\ masksCorrected = <<>>
    /\ mask = <<>>
    /\ reads = {}
    /\ results = <<>>
    /\ remove_vesicles_toggle = FALSE
    /\ raised = NoError

(***************************************************************************)
(* kneedle called on every short vector.                                   *)
(***************************************************************************)
InitKneedle ==
    /\ idlePipeline
    /\ call \in {[fn |-> "kneedle", vector |-> v] : v \in ShortVectors}
    /\ ret = NoRet

CallKneedle ==
    /\ call.fn = "kneedle"
    /\ ret = NoRet
    /\ ret' = [done |-> TRUE,
               index |-> Kneedle(call.vector)[1],
               value |-> Kneedle(call.vector)[2]]
    /\ UNCHANGED <<call, pipelineVars>>

NextKneedle == CallKneedle

SpecKneedle == InitKneedle /\ [][NextKneedle]_vars

(***************************************************************************)
(* running_average called on short and long vectors, with the windows the  *)
(* code passes (10, 20, a fifth of the length) and the small ones.         *)
(***************************************************************************)
WindowsFor(v) ==
    (0..MaxWindow) \cup {ProfileWindow, ResultWindow, ThresholdWindow(Len(v))}

InitRunAvg ==
    /\ idlePipeline
    /\ call \in {[fn |-> "running_average", vector |-> v, window |-> w,
                  valid_mode |-> vm] :
                    v \in ShortVectors \cup LongVectors,
                    w \in 0..ResultWindow, vm \in BOOLEAN}
    /\ call.window \in WindowsFor(call.vector)
    /\ ret = NoRet

CallRunningAverage ==
    /\ call.fn = "running_average"
    /\ ret = NoRet
    /\ LET r == RunningAverage(call.vector, call.window, call.valid_mode)
       IN  ret' = [done |-> TRUE, raised |-> r.raised,
                   indexes |-> r.indexes, smooth |-> r.smooth]
    /\ UNCHANGED <<call, pipelineVars>>

NextRunAvg == CallRunningAverage

SpecRunAvg == InitRunAvg /\ [][NextRunAvg]_vars

(***************************************************************************)
(* structure_mask called on cleaned masks of three or four blank (1)       *)
(* components of every small width, in every order of their areas, and on  *)
(* masks of two components.                                                *)
(***************************************************************************)
MaxBand == 3
MaxGap == 6

Gaps == {1, MaxGap}

BandWidths == 1..MaxBand

UnstructuredMasks ==
    {Bands(<<<<1, w1>>, <<0, g1>>, <<1, w2>>, <<0, g2>>, <<1, w3>>>>) :
        <<w1, w2, w3>> \in BandWidths \X BandWidths \X BandWidths,
        <<g1, g2>> \in Gaps \X Gaps}
    \cup
    {Bands(<<<<1, w[1]>>, <<0, 1>>, <<1, w[2]>>, <<0, 1>>, <<1, w[3]>>,
             <<0, 1>>, <<1, w[4]>>>>) :
        w \in BandWidths \X BandWidths \X BandWidths \X BandWidths}
    \cup
    {Bands(<<<<1, w1>>, <<0, g1>>, <<1, w2>>>>) :
        <<w1, w2>> \in BandWidths \X BandWidths, g1 \in Gaps}

InitStructure ==
    /\ idlePipeline
    /\ call \in {[fn |-> "structure_mask", unstructured_mask |-> m] :
                    m \in UnstructuredMasks}
    /\ ret = NoRet

CallStructureMask ==
    /\ call.fn = "structure_mask"
    /\ ret = NoRet
    /\ LET r == StructureMask(call.unstructured_mask)
       IN  ret' = [done |-> TRUE, raised |-> r.raised, labels |-> r.labels,
                   loi |-> r.loi, lumen_mask |-> r.lumen_mask,
                   bg1_label |-> r.bg1_label, bg2_label |-> r.bg2_label,
                   lumen_label |-> r.lumen_label, mask |-> r.mask]
    /\ UNCHANGED <<call, pipelineVars>>

NextStructure == CallStructureMask

SpecStructure == InitStructure /\ [][NextStructure]_vars

(***************************************************************************)
(* mask_movie and structure_mask together: the movies of Runs, and         *)
(* structure_mask on the cleaned masks above.                              *)
(***************************************************************************)
InitMasks == Init \/ InitStructure

NextMasks == Next \/ CallStructureMask

SpecMasks == InitMasks /\ [][NextMasks]_vars

(***************************************************************************)
(* remove_vesicles called on two label masks that differ by an intrusion   *)
(* of the cells into each edge of the lumen: m2 holds lumen where m1       *)
(* holds cells, over vl columns on the left and vr on the right, or the    *)
(* other way round.                                                        *)
(***************************************************************************)
MaxIntrusion == 10
EdgeWidth == 2
WallWidth == 3
CoreWidth == 4

Intruded(vl, vr) ==
    Bands(<<<<1, EdgeWidth>>, <<0, WallWidth + vl>>, <<3, CoreWidth>>,
            <<0, WallWidth + vr>>, <<2, EdgeWidth>>>>)

Open(vl, vr) ==
    Bands(<<<<1, EdgeWidth>>, <<0, WallWidth>>, <<3, vl + CoreWidth + vr>>,
            <<0, WallWidth>>, <<2, EdgeWidth>>>>)

InitVesicles ==
    /\ idlePipeline
    /\ call \in
          {[fn |-> "remove_vesicles", m1 |-> Intruded(vl, vr),
            m2 |-> Open(vl, vr)] :
              <<vl, vr>> \in (0..MaxIntrusion) \X (0..MaxIntrusion)}
          \cup
          {[fn |-> "remove_vesicles", m1 |-> Open(vl, vr),
            m2 |-> Intruded(vl, vr)] :
              <<vl, vr>> \in (0..MaxIntrusion) \X (0..MaxIntrusion)}
    /\ ret = NoRet

CallRemoveVesicles ==
    /\ call.fn = "remove_vesicles"
    /\ ret = NoRet
    /\ ret' = [done |-> TRUE,
               possible_vesicles |-> PossibleVesicles(call.m1, call.m2),
               mask |-> RemoveVesicles(call.m1, call.m2, MinVesicleSize)]
    /\ UNCHANGED <<call, pipelineVars>>

NextVesicles == CallRemoveVesicles

SpecVesicles == InitVesicles /\ [][NextVesicles]_vars

(***************************************************************************)
(* The role assignment of structure_mask (lines 461-479) called on the     *)
(* centroids of three components anywhere on a small grid, in every order. *)
(***************************************************************************)
MaxCoord == 2

CentroidGrid == (0..MaxCoord) \X (0..MaxCoord)

InitRoles ==
    /\ idlePipeline
    /\ call \in {[fn |-> "assign_roles", labels_of_interest |-> <<1, 2, 3>>,
                  centroids |-> <<a, b, c>>] :
                    <<a, b, c>> \in CentroidGrid \X CentroidGrid \X CentroidGrid}
    /\ ret = NoRet

CallAssignRoles ==
    /\ call.fn = "assign_roles"
    /\ ret = NoRet
    /\ LET r == AssignRoles(call.labels_of_interest, call.centroids)
       IN  ret' = [done |-> TRUE, bound |-> r.bound,
                   bg1_label |-> r.bg1_label, bg2_label |-> r.bg2_label,
                   lumen_label |-> r.lumen_label]
    /\ UNCHANGED <<call, pipelineVars>>

NextRoles == CallAssignRoles

SpecRoles == InitRoles /\ [][NextRoles]_vars

(***************************************************************************)
(* The sampling of threshold_movie (lines 378-383) on frames of every      *)
(* shape up to MaxSide x MaxSide: the coordinates of the four profiles.    *)
(***************************************************************************)
MaxSide == 8

InitAxes ==
    /\ idlePipeline
    /\ call \in {[fn |-> "sample_axes", rows |-> rows, cols |-> cols] :
                    <<rows, cols>> \in (1..MaxSide) \X (1..MaxSide)}
    /\ ret = NoRet

SampleAxes ==
    /\ call.fn = "sample_axes"
    /\ ret = NoRet
    /\ ret' = [done |-> TRUE,
               ax_1_pnts |-> Ax1Pnts(call.rows, call.cols),
               ax_2_pnts |-> Ax2Pnts(call.rows, call.cols),
               ax_3_pnts |-> Ax3Pnts(call.rows, call.cols),
               ax_4_pnts |-> Ax4Pnts(call.rows, call.cols)]
    /\ UNCHANGED <<call, pipelineVars>>

NextAxes == SampleAxes

SpecAxes == InitAxes /\ [][NextAxes]_vars

(***************************************************************************)
(* The component filter of mask_movie (lines 185-202) called on cleaned    *)
(* masks of up to MaxComponents bright bands, one dark column apart: bands *)
(* of one column, bands of exactly MinObjectArea pixels (as far as the     *)
(* frame height allows) and bands one column wider.                        *)
(***************************************************************************)
MaxComponents == 6

EdgeBand == MinObjectArea \div FrameRows

ComponentWidths == {1, EdgeBand, EdgeBand + 1}

RECURSIVE Striped(_)
Striped(w) ==
    IF Len(w) = 1 THEN Bands(<<<<1, w[1]>>>>)
    ELSE Bands(<<<<1, w[1]>>, <<0, 1>>>>) \o Striped(Tail(w))

CleanedMasks ==
    UNION {{Striped(w) : w \in [1..k -> ComponentWidths]} :
              k \in 1..MaxComponents}

InitFilter ==
    /\ idlePipeline
    /\ call \in {[fn |-> "filter_objects", mask |-> m] : m \in CleanedMasks}
    /\ ret = NoRet

FilterObjects ==
    /\ call.fn = "filter_objects"
    /\ ret = NoRet
    /\ LET labels == Label(call.mask)
           labels_areas == LabelsAreas(labels)
           index == FilterIndex(labels_areas)
           good_labels == GoodLabels(labels_areas, index)
       IN  ret' = [done |-> TRUE, labels |-> labels,
                   labels_areas |-> labels_areas, index |-> index,
                   good_labels |-> good_labels,
                   mask |-> RedefinedMask(labels, good_labels)]
    /\ UNCHANGED <<call, pipelineVars>>

NextFilter == FilterObjects

SpecFilter == InitFilter /\ [][NextFilter]_vars

(***************************************************************************)
(* sort_coords called, one turn of its loops at a time, on the points of   *)
(* a diagonal line in every order, with and without a point beyond a gap,  *)
(* and on distinct points of a small grid.                                 *)
(***************************************************************************)
MaxLine == 4
MaxPoints == 3
GridCols == 3
GapWidth == 3

Injective(f) == \A a, b \in DOMAIN f : a # b => f[a] # f[b]

DiagonalLines ==
    UNION {{[k \in 1..n |-> <<order[k], order[k]>>] :
               order \in {f \in [1..n -> 0..(n - 1)] : Injective(f)}} :
           n \in NeighborsNum..MaxLine}

\* The points of a diagonal line and one more, GapWidth steps beyond its
\* end, in every order.
GappedLines ==
    UNION {{[k \in 1..(n + 1) |->
                IF order[k] = n
                THEN <<n - 1 + GapWidth, n - 1 + GapWidth>>
                ELSE <<order[k], order[k]>>] :
               order \in {f \in [1..(n + 1) -> 0..n] : Injective(f)}} :
           n \in NeighborsNum..MaxLine}

\* Two rows of GridCols points.
GridPoints == (0..1) \X (0..(GridCols - 1))

ScatteredPoints ==
    UNION {{f \in [1..n -> GridPoints] : Injective(f)} :
           n \in NeighborsNum..MaxPoints}

InitSort ==
    /\ idlePipeline
    /\ call \in {[fn |-> "sort_coords", pnts |-> pnts] :
                    pnts \in DiagonalLines \cup GappedLines
                                \cup ScatteredPoints}
    /\ ret = NoRet

\* Lines 1015-1019: the neighbors, and the first three indices.
SortStart ==
    /\ call.fn = "sort_coords"
    /\ ret = NoRet
    /\ \E indices \in KNNResults(call.pnts) :
           ret' = [done |-> FALSE, walk |-> "right", indices |-> indices,
                   sorted_idx |-> FirstSortedIdx(indices)]
    /\ UNCHANGED <<call, pipelineVars>>

\* One turn of the first loop (lines 1023-1043); the turn that clears the
\* toggle leaves the loop and inverts sorted_idx.
WalkRight ==
    /\ call.fn = "sort_coords"
    /\ ret # NoRet
    /\ ~ret.done
    /\ ret.walk = "right"
    /\ LET next_i == WalkNext(ret.sorted_idx, ret.indices)
       IN  IF next_i < 0
           THEN ret' = [ret EXCEPT !.walk = "left",
                                   !.sorted_idx = Reversed(ret.sorted_idx)]
           ELSE ret' = [ret EXCEPT !.sorted_idx = Append(@, next_i)]
    /\ UNCHANGED <<call, pipelineVars>>

\* One turn of the second loop (lines 1047-1068); the turn that clears the
\* toggle returns pnts[sorted_idx].
WalkLeft ==
    /\ call.fn = "sort_coords"
    /\ ret # NoRet
    /\ ~ret.done
    /\ ret.walk = "left"
    /\ LET next_i == WalkNext(ret.sorted_idx, ret.indices)
       IN  IF next_i < 0
           THEN ret' = [done |-> TRUE, walk |-> "returned",
                        indices |-> ret.indices,
                        sorted_idx |-> ret.sorted_idx,
                        sorted_pnts |-> TakePoints(call.pnts, ret.sorted_idx)]
           ELSE ret' = [ret EXCEPT !.sorted_idx = Append(@, next_i)]
    /\ UNCHANGED <<call, pipelineVars>>

NextSort == SortStart \/ WalkRight \/ WalkLeft

SpecSort == InitSort /\ [][NextSort]_vars

(***************************************************************************)
(* measure_tubule called on straight tubules: a background-1 band, cells,  *)
(* a lumen band (or none), cells and a background-2 band, in images of a   *)
(* few rows, with a few spacings.                                          *)
(***************************************************************************)
MaxRows == 5
MaxSpacing == 2
MaxBgBand == 2
MaxCellBand == 2
MaxLumenBand == 3

StraightTubules ==
    {Bands(<<<<1, b1>>, <<0, cells>>, <<3, lumen>>, <<0, cells>>, <<2, b2>>>>) :
        <<b1, b2>> \in (1..MaxBgBand) \X (1..MaxBgBand),
        cells \in 1..MaxCellBand,
        lumen \in 0..MaxLumenBand}

InitMeasure ==
    /\ idlePipeline
    /\ call \in {[fn |-> "measure_tubule", m |-> m, rows |-> rows,
                  spacing |-> spacing] :
                    m \in StraightTubules, rows \in NeighborsNum..MaxRows,
                    spacing \in 1..MaxSpacing}
    /\ ret = NoRet

CallMeasureTubule ==
    /\ call.fn = "measure_tubule"
    /\ ret = NoRet
    /\ \E measured \in MeasureTubule(call.m, call.rows, call.spacing) :
           ret' = [done |-> TRUE,
                   tubule_outline_1 |-> measured.tubule_outline_1,
                   tubule_outline_2 |-> measured.tubule_outline_2,
                   tubule_measurements |-> measured.tubule_measurements,
                   lumen_measurements |-> measured.lumen_measurements,
                   cells_measurements2 |-> measured.cells_measurements2,
                   diagnostic_m |-> measured.diagnostic_m,
                   results |-> measured.results]
    /\ UNCHANGED <<call, pipelineVars>>

NextMeasure == CallMeasureTubule

SpecMeasure == InitMeasure /\ [][NextMeasure]_vars

(***************************************************************************)
(* Properties of process_movie and mask_movie.                             *)
(***************************************************************************)
NumFrames == Len(movie)

\* C1: with masking enabled, every frame's threshold is computed and the
\* series is smoothed before any frame is masked, every frame has its mask
\* before the first vesicle comparison, and the vesicle pass has corrected
\* every frame before the first frame is measured: no two stages are ever
\* part-way through the movie together.
C1_StagesInOrder ==
    /\ (pc = "mask" \/ masks # <<>>) =>
           /\ Len(rawThresholds) = NumFrames
           /\ Len(thresholds) = NumFrames
    /\ (pc = "vesicle" \/ reads # {}) => Len(masks) = NumFrames
    /\ (pc = "measure" \/ results # <<>>) =>
           /\ Len(masksCorrected) = NumFrames
           /\ mask = masksCorrected
           /\ remove_vesicles_toggle =>
                  \A f \in 0..(NumFrames - 1) : \E r \in reads : r.frame = f

\* A run with the vesicle pass that went through every stage and measures.
C1_Witness ==
    /\ pc = "measure"
    /\ remove_vesicles_toggle
    /\ reads # {}
    /\ results # <<>>
    /\ Len(results) < NumFrames

InRange(f, td) == 0 <= f + td /\ f + td < NumFrames

\* The frame the vesicle pass corrected last.
LastCorrected == Len(masksCorrected) - 1

VesiclePassRunning ==
    pc = "vesicle" /\ remove_vesicles_toggle /\ masksCorrected # <<>>

\* The mask of frame f with lumen wherever one of the comparisons at the
\* offsets time_deltas[k], k in ks, returned lumen.
UnionOver(f, ks) ==
    LET tmp == [k \in DOMAIN time_deltas |->
                   IF k \in ks
                   THEN ComparisonResult(masks, f, time_deltas[k])
                   ELSE <<>>] \o <<>>
    IN  [c \in 1..Len(masks[f + 1]) |->
            IF \E k \in ks : tmp[k][c] = 3 THEN 3 ELSE masks[f + 1][c]] \o <<>>

\* C2: in the vesicle pass over N masks, an offset td with t + td < 0 or
\* t + td >= N contributes nothing: the corrected mask of frame t is what
\* the offsets inside the movie alone give, and no frame is read in place
\* of the missing one.
C2_OutOfRangeOffsetsContributeNothing ==
    /\ \A r \in reads : ~InRange(r.frame, r.td) => r.src = 0 - 1
    /\ VesiclePassRunning =>
           masksCorrected[LastCorrected + 1]
               = UnionOver(LastCorrected,
                           {k \in DOMAIN time_deltas :
                               InRange(LastCorrected, time_deltas[k])})

\* C3: after the vesicle pass a pixel of frame t holds 3 if one of the
\* four comparisons returned 3 there, and the uncorrected value otherwise;
\* the pass leaves the uncorrected masks as they were.
C3_CorrectedIsUnion ==
    /\ [](VesiclePassRunning =>
              masksCorrected[LastCorrected + 1]
                  = UnionOver(LastCorrected, DOMAIN time_deltas))
    /\ [][pc = "vesicle" => masks' = masks]_vars

\* A frame the pass corrected: lumen where the uncorrected mask has cells.
C3_Witness ==
    /\ VesiclePassRunning
    /\ \E c \in DOMAIN masks[LastCorrected + 1] :
           /\ masks[LastCorrected + 1][c] = 0
           /\ masksCorrected[LastCorrected + 1][c] = 3
    /\ \E c \in DOMAIN masks[LastCorrected + 1] :
           /\ masks[LastCorrected + 1][c] = 0
           /\ masksCorrected[LastCorrected + 1][c] = 0

\* C7: a frame whose cleaned mask has fewer than three components does not
\* end the run: structure_mask's exception never leaves mask_movie.
C7_FrameFailureDoesNotAbort ==
    raised.by # "structure_mask"

\* analyze_frames left its loop over a mask sequence of N >= 1 frames and
\* ended, with its table or with an exception.
AnalyzeFramesEnded ==
    /\ pc \in {"done", "raised"}
    /\ NumFrames >= 1
    /\ Len(mask) = NumFrames
    /\ Len(results) = NumFrames

\* C11: analyze_frames on N >= 1 masks completes with N rows in frame
\* order; lumen_area of row t is the number of label-3 pixels of mask t and
\* lumen_normalized_area is lumen_area over the maximum of the series (1 at
\* the frame that holds the maximum, at most 1 elsewhere).
C11_AnalyzeFramesCompletes ==
    AnalyzeFramesEnded =>
        /\ pc = "done"
        /\ \A k \in DOMAIN results :
               /\ results[k].frame = k - 1
               /\ results[k].lumen_area = CountOf(mask[k], LumenLabel)
               /\ results[k].lumen_normalized_area[1] = results[k].lumen_area
               /\ \A j \in DOMAIN results :
                      results[j].lumen_area
                          <= results[k].lumen_normalized_area[2]
               /\ \E j \in DOMAIN results :
                      results[j].lumen_area
                          = results[k].lumen_normalized_area[2]

(***************************************************************************)
(* Properties of remove_vesicles.                                          *)
(***************************************************************************)
VesiclesCallDone == call.fn = "remove_vesicles" /\ ret.done

\* The candidate regions of the call: the components of possible_vesicles.
Candidates == Label(PossibleVesicles(call.m1, call.m2))

\* C4: remove_vesicles relabels as lumen (3) every isolated candidate region
\* of at least 500 pixels, also when it is the only candidate, and leaves
\* the pixels of a candidate region of fewer than 500 pixels as they were.
C4_FloorDecidesRelabeling ==
    VesiclesCallDone =>
        \A lb \in 1..LabelsNum(Candidates) :
            \A c \in DOMAIN Candidates :
                Candidates[c] = lb =>
                    IF Area(Candidates, lb) >= MinVesicleSize
                    THEN ret.mask[c] = 3
                    ELSE ret.mask[c] = call.m1[c]

\* The pixels of the window of 5 around pixel c that lie in the image.
Around(c) == {d \in DOMAIN call.m1 : c - 2 <= d /\ d <= c + 2}

LumenAt(m, c) == m[c] = 3

\* C15 as stated: the candidates of a comparison of frame t (m1) against
\* frame t+offset (m2) are the pixels lumen in m1 and not lumen in m2, eroded
\* by a window of 5, and a pixel not lumen in m1 but lumen in m2 is never a
\* candidate.
C15_CandidatesAreLostLumen ==
    VesiclesCallDone =>
        \A c \in DOMAIN call.m1 :
            /\ ret.possible_vesicles[c] = 1 <=>
                   \A d \in Around(c) :
                       LumenAt(call.m1, d) /\ ~LumenAt(call.m2, d)
            /\ (~LumenAt(call.m1, c) /\ LumenAt(call.m2, c)) =>
                   ret.possible_vesicles[c] = 0

\* C15, amended: the candidates are the pixels not lumen in m1 and lumen in
\* m2, eroded by a window of 5, and a pixel lumen in m1 but not lumen in m2
\* is never a candidate.
C15_CandidatesFillUp ==
    VesiclesCallDone =>
        \A c \in DOMAIN call.m1 :
            /\ ret.possible_vesicles[c] = 1 <=>
                   \A d \in Around(c) :
                       ~LumenAt(call.m1, d) /\ LumenAt(call.m2, d)
            /\ (LumenAt(call.m1, c) /\ ~LumenAt(call.m2, c)) =>
                   ret.possible_vesicles[c] = 0

\* remove_vesicles returned with candidates, after the erosion took the
\* rim of a region that fills up in m2.
C15_Witness ==
    /\ VesiclesCallDone
    /\ \E c \in DOMAIN call.m1 : ret.possible_vesicles[c] = 1
    /\ \E c \in DOMAIN call.m1 :
           /\ ~LumenAt(call.m1, c) /\ LumenAt(call.m2, c)
           /\ ret.possible_vesicles[c] = 0

(***************************************************************************)
(* Properties of the role assignment of structure_mask.                    *)
(***************************************************************************)
RolesAssigned == call.fn = "assign_roles" /\ ret.done

\* The squared distances between the three centroids of the call.
PairDistances ==
    <<Distance2(call.centroids[1], call.centroids[2]),
      Distance2(call.centroids[1], call.centroids[3]),
      Distance2(call.centroids[2], call.centroids[3])>>

AllEqual(d) == d[1] = d[2] /\ d[2] = d[3]

\* C19: the role assignment falls through, binding no label, only when the
\* three distances between the centroids are all equal; for every other
\* triple a branch is taken and the labels of background 1, background 2
\* and lumen are bound, to the three labels of interest.
C19_FallThroughOnlyWhenAllEqual ==
    RolesAssigned =>
        /\ ~ret.bound => AllEqual(PairDistances)
        /\ ~AllEqual(PairDistances) =>
               /\ ret.bound
               /\ {ret.bg1_label, ret.bg2_label, ret.lumen_label}
                      = Range(call.labels_of_interest)

(***************************************************************************)
(* Properties of the sampling of threshold_movie.                          *)
(***************************************************************************)
AxesSampled == call.fn = "sample_axes" /\ ret.done

InsideFrame(point) ==
    /\ 0 <= point[1] /\ point[1] <= call.rows - 1
    /\ 0 <= point[2] /\ point[2] <= call.cols - 1

AllInside(pnts) == \A k \in DOMAIN pnts : InsideFrame(pnts[k])

\* C18: the anti-diagonal profile runs from the bottom-left corner
\* (rows-1, 0) to the top-right corner (0, cols-1), and every coordinate
\* sampled along the two midlines and the two diagonals lies inside the
\* frame.
C18_SamplesInsideFrame ==
    AxesSampled =>
        /\ ret.ax_4_pnts[1] = <<call.rows - 1, 0>>
        /\ ret.ax_4_pnts[Len(ret.ax_4_pnts)] = <<0, call.cols - 1>>
        /\ AllInside(ret.ax_1_pnts)
        /\ AllInside(ret.ax_2_pnts)
        /\ AllInside(ret.ax_3_pnts)
        /\ AllInside(ret.ax_4_pnts)

(***************************************************************************)
(* Properties of the component filter of mask_movie.                       *)
(***************************************************************************)
FilterReturned == call.fn = "filter_objects" /\ ret.done

Components == 1..LabelsNum(ret.labels)

\* How many components of the sorted list may be kept: all of at most 5,
\* the knee of the area list of more.
KeptCount ==
    IF Cardinality(Components) <= 5
    THEN Cardinality(Components)
    ELSE Kneedle([k \in DOMAIN ret.labels_areas |->
                     ret.labels_areas[k][2]])[1]

\* C16: the components are sorted by area, largest first; of at most 5
\* components all are candidates, of more the number the knee of the area
\* list gives; of these the ones with an area above 2500 pixels are kept,
\* an area of exactly 2500 is not; the pixels of the kept components, and
\* no others, are marked as object (0).
C16_ComponentFilter ==
    FilterReturned =>
        /\ {ret.labels_areas[k][1] : k \in DOMAIN ret.labels_areas}
               = Components
        /\ Len(ret.labels_areas) = Cardinality(Components)
        /\ \A k \in DOMAIN ret.labels_areas :
               /\ ret.labels_areas[k][2]
                      = Cardinality({c \in DOMAIN ret.labels :
                            ret.labels[c] = ret.labels_areas[k][1]})
                            * FrameRows
               /\ k > 1 => ret.labels_areas[k - 1][2] >= ret.labels_areas[k][2]
        /\ \A k \in DOMAIN ret.labels_areas :
               ret.labels_areas[k][1] \in ret.good_labels <=>
                   k <= KeptCount /\ ret.labels_areas[k][2] > 2500
        /\ \A c \in DOMAIN ret.mask :
               ret.mask[c] = 0 <=> ret.labels[c] \in ret.good_labels

\* The filter returned for more than 5 components: it kept one, dropped one
\* of exactly 2500 pixels that the knee had let through, and left the
\* pixels of a component unmarked.
C16_Witness ==
    /\ FilterReturned
    /\ Cardinality(Components) > 5
    /\ ret.good_labels # {}
    /\ \E k \in DOMAIN ret.labels_areas :
           /\ k <= KeptCount
           /\ ret.labels_areas[k][2] = 2500
           /\ ret.labels_areas[k][1] \notin ret.good_labels
    /\ \E c \in DOMAIN ret.mask : ret.labels[c] # 0 /\ ret.mask[c] = 1

(***************************************************************************)
(* Properties of structure_mask.                                           *)
(***************************************************************************)
StructureReturned ==
    call.fn = "structure_mask" /\ ret.done /\ ret.raised = ""

ValuesIn(m, values) == \A c \in DOMAIN m : m[c] \in values

\* C5: every pixel of every label mask holds 0, 1, 2 or 3, as
\* structure_mask returns it and after the vesicle pass, and a pixel the
\* closed and filled lumen mask covers holds 3 even inside a background
\* component.
C5_LabelValues ==
    /\ \A k \in DOMAIN masks : ValuesIn(masks[k], 0..3)
    /\ \A k \in DOMAIN masksCorrected : ValuesIn(masksCorrected[k], 0..3)
    /\ \A k \in DOMAIN mask : ValuesIn(mask[k], 0..3)
    /\ StructureReturned =>
           /\ ValuesIn(ret.mask, 0..3)
           /\ \A c \in DOMAIN ret.mask :
                  ret.lumen_mask[c] = 1 => ret.mask[c] = 3

\* structure_mask returned a mask whose lumen mask reaches into a
\* background component and leaves other pixels of the image out.
C5_Witness ==
    /\ StructureReturned
    /\ \E c \in DOMAIN ret.mask :
           /\ ret.lumen_mask[c] = 1
           /\ ret.labels[c] \in {ret.bg1_label, ret.bg2_label}
    /\ \E c \in DOMAIN ret.mask : ret.mask[c] \in {1, 2}

\* The distance (squared) of the centroids of two components.
Apart(a, b) ==
    Distance2(Centroid2(ret.labels, a), Centroid2(ret.labels, b))

AllLabels == 1..LabelsNum(ret.labels)

\* Three of the components such that no other component is larger than
\* one of them.
ThreeLargest ==
    {T \in SUBSET AllLabels :
        /\ Cardinality(T) = 3
        /\ \A a \in T : \A b \in AllLabels \ T :
               Area(ret.labels, a) >= Area(ret.labels, b)}

\* C6: of the three largest components, the two whose centroids are
\* strictly the farthest apart become background-1 and background-2 and
\* the third the lumen, whatever the order of the three areas.
C6_FarthestPairIsBackground ==
    StructureReturned =>
        /\ {ret.loi[k] : k \in DOMAIN ret.loi} \in ThreeLargest
        /\ \A a, b, c \in {ret.loi[k] : k \in DOMAIN ret.loi} :
               (/\ Cardinality({a, b, c}) = 3
                /\ Apart(a, b) > Apart(a, c)
                /\ Apart(a, b) > Apart(b, c)) =>
                   /\ {ret.bg1_label, ret.bg2_label} = {a, b}
                   /\ ret.lumen_label = c
                   /\ \A p \in DOMAIN ret.mask :
                          ret.lumen_mask[p] = 0 =>
                              /\ ret.labels[p] = ret.bg1_label
                                     => ret.mask[p] = 1
                              /\ ret.labels[p] = ret.bg2_label
                                     => ret.mask[p] = 2

\* structure_mask returned with the lumen as the largest of three
\* components of three different areas.
C6_Witness ==
    /\ StructureReturned
    /\ ret.lumen_label = ret.loi[1]
    /\ Area(ret.labels, ret.loi[1]) > Area(ret.labels, ret.loi[2])
    /\ Area(ret.labels, ret.loi[2]) > Area(ret.labels, ret.loi[3])
    /\ \E p \in DOMAIN ret.mask : ret.mask[p] = 1
    /\ \E p \in DOMAIN ret.mask : ret.mask[p] = 2

(***************************************************************************)
(* Properties of measure_tubule.                                           *)
(***************************************************************************)
MeasureReturned == call.fn = "measure_tubule" /\ ret.done

\* C12: the sample count of a frame's measurement row is the number of
\* samples that were not skipped, the ones that enter the width means.
C12_CountIsValidSamples ==
    MeasureReturned =>
        /\ ret.results.width_measurements = Len(ret.tubule_measurements)
        /\ ret.results.width_measurements = ret.results.tubule_mean_width[2]

\* The widths of the straight tubule of the call: the columns between the
\* two backgrounds, and those of the lumen.
TubuleWidth == Cardinality({c \in DOMAIN call.m : call.m[c] \in {0, 3}})

LumenWidth3 == Cardinality({c \in DOMAIN call.m : call.m[c] = 3})

\* |mean - width| <= 1 for a mean <<sum, count>> of at least one sample.
WithinOne(mean, width) ==
    /\ mean[2] > 0
    /\ mean[1] - width * mean[2] <= mean[2]
    /\ width * mean[2] - mean[1] <= mean[2]

\* C13: for a straight tubule with a lumen the tubule mean width is within
\* 1 pixel of the width between the backgrounds, the lumen mean width
\* within 1 pixel of the width of the lumen band, and the sample count
\* about length / spacing.
C13_StraightTubuleWidths ==
    (MeasureReturned /\ LumenWidth3 >= 1
                     /\ Len(ret.tubule_measurements) >= 1) =>
        /\ WithinOne(ret.results.tubule_mean_width, TubuleWidth)
        /\ WithinOne(ret.results.lumen_mean_width, LumenWidth3)
        /\ ret.results.width_measurements
               \in ((call.rows \div call.spacing) - 1)
                       ..((call.rows \div call.spacing) + 1)

\* The samples the loop of the call goes through.
SampleIndexes == 0..ret.results.width_measurements

\* The profile of sample i: the points between its two outline points.
ProfileOf(i) ==
    GetPointsInBetween(SamplePoint(ret.tubule_outline_1, i, call.spacing),
                       SamplePoint(ret.tubule_outline_2, i, call.spacing))

\* The point lies in row 0, the last row, column 0 or the last column.
TouchesBorder(point) ==
    \/ point[1] \in {0, call.rows - 1}
    \/ point[2] \in {0, Len(call.m) - 1}

\* Sample i is one to skip: an outline point on the border, or a profile
\* without lumen.
ToSkip(i) ==
    \/ TouchesBorder(SamplePoint(ret.tubule_outline_1, i, call.spacing))
    \/ TouchesBorder(SamplePoint(ret.tubule_outline_2, i, call.spacing))
    \/ \A k \in DOMAIN ProfileOf(i) : call.m[ProfileOf(i)[k][2] + 1] # 3

KeptIndexes == {i \in SampleIndexes : ~ToSkip(i)}

Outlined(point) ==
    InSeq(point, ret.tubule_outline_1) \/ InSeq(point, ret.tubule_outline_2)

\* C17: a sample is skipped when one of its outline points lies on the
\* border of the image or its profile holds no lumen pixel; a skipped
\* sample adds nothing to the three width lists and draws no profile line
\* (5), every other sample adds one entry to each list and draws its line.
C17_SkippedSamplesAddNothing ==
    MeasureReturned =>
        /\ Len(ret.tubule_measurements) = Cardinality(KeptIndexes)
        /\ Len(ret.lumen_measurements) = Cardinality(KeptIndexes)
        /\ Len(ret.cells_measurements2) = Cardinality(KeptIndexes)
        /\ \A i \in KeptIndexes :
               LET k == Cardinality({j \in KeptIndexes : j <= i})
               IN  /\ ret.tubule_measurements[k] = Len(ProfileOf(i))
                   /\ \A j \in DOMAIN ProfileOf(i) :
                          ~Outlined(ProfileOf(i)[j]) =>
                              ret.diagnostic_m[ProfileOf(i)[j]] = 5
        /\ \A point \in DOMAIN ret.diagnostic_m :
               ret.diagnostic_m[point] = 5 =>
                   \E i \in KeptIndexes : InSeq(point, ProfileOf(i))

\* measure_tubule returned after it skipped a sample on the border and
\* measured another one.
C17_Witness ==
    /\ MeasureReturned
    /\ KeptIndexes # {}
    /\ \E i \in SampleIndexes : ToSkip(i)
    /\ \E point \in DOMAIN ret.diagnostic_m : ret.diagnostic_m[point] = 5

\* measure_tubule returned for a mask without lumen: every sample skipped.
NoLumenAllSkipped ==
    /\ MeasureReturned
    /\ LumenWidth3 = 0
    /\ ret.tubule_measurements = <<>>

(***************************************************************************)
(* Properties of sort_coords.                                              *)
(***************************************************************************)
SortReturned == call.fn = "sort_coords" /\ ret.done

\* The points are those of the diagonal (0, 0), (1, 1), ..., in some order.
IsDiagonalLine(pnts) ==
    /\ \A k \in DOMAIN pnts : pnts[k][1] = pnts[k][2]
    /\ {pnts[k][1] : k \in DOMAIN pnts} = 0..(Len(pnts) - 1)

Abs(x) == IF x < 0 THEN 0 - x ELSE x

Chebyshev(p, q) == Max2(Abs(p[1] - q[1]), Abs(p[2] - q[2]))

Monotonic(pnts) ==
    \/ \A k \in 1..(Len(pnts) - 1) : pnts[k][1] < pnts[k + 1][1]
    \/ \A k \in 1..(Len(pnts) - 1) : pnts[k][1] > pnts[k + 1][1]

\* C14: sort_coords on the points of a straight diagonal line in any input
\* order returns all the points as a monotonic walk from one end to the
\* other, consecutive points at Chebyshev distance at most 1.
C14_DiagonalLineIsWalked ==
    (SortReturned /\ IsDiagonalLine(call.pnts)) =>
        /\ Len(ret.sorted_pnts) = Len(call.pnts)
        /\ Range(ret.sorted_pnts) = Range(call.pnts)
        /\ Monotonic(ret.sorted_pnts)
        /\ \A k \in 1..(Len(ret.sorted_pnts) - 1) :
               Chebyshev(ret.sorted_pnts[k], ret.sorted_pnts[k + 1]) <= 1

SortRunning == call.fn = "sort_coords" /\ ret # NoRet

NoRepeat(seq) == \A a, b \in DOMAIN seq : a # b => seq[a] # seq[b]

\* The turns sort_coords can still take: two for every point that is not
\* in sorted_idx (its append, and nothing else), and one to leave each loop.
TurnsLeft(r) ==
    2 * (Len(call.pnts) - Len(r.sorted_idx))
        + (IF r.walk = "right" THEN 2 ELSE IF r.walk = "left" THEN 1 ELSE 0)

\* C20: on N >= 3 distinct points every turn of either walk appends an
\* index sorted_idx does not hold yet or leaves its loop, so that the turns
\* run out (at most N - 3 appends) and sort_coords returns; the returned
\* sequence holds no point twice and between 3 and N points.
C20_SortCoordsTerminates ==
    /\ [](SortRunning =>
              /\ NoRepeat(ret.sorted_idx)
              /\ NeighborsNum <= Len(ret.sorted_idx)
              /\ Len(ret.sorted_idx) <= Len(call.pnts)
              /\ TurnsLeft(ret) >= 0
              /\ (TurnsLeft(ret) = 0 \/ ret.done) => ret.walk = "returned"
              /\ ret.done => /\ NoRepeat(ret.sorted_pnts)
                             /\ Len(ret.sorted_pnts) = Len(ret.sorted_idx))
    /\ [][SortRunning =>
              /\ TurnsLeft(ret') < TurnsLeft(ret)
              /\ Len(ret'.sorted_idx) > Len(ret.sorted_idx) =>
                     /\ Len(ret'.sorted_idx) = Len(ret.sorted_idx) + 1
                     /\ ~InSeq(ret'.sorted_idx[Len(ret'.sorted_idx)],
                               ret.sorted_idx)]_vars

\* sort_coords returned after a walk appended a point, and without some
\* point of the input.
C20_Witness ==
    /\ SortReturned
    /\ Len(ret.sorted_idx) > NeighborsNum
    /\ Len(ret.sorted_idx) < Len(call.pnts)

(***************************************************************************)
(* Properties of kneedle.                                                  *)
(***************************************************************************)
\* The chord through (0, max) and (len - 1, min):
\* line(x) - vector[x], multiplied by len - 1 (0 for a single sample, whose
\* chord is the one point).
ChordDiff(vector, x) ==
    (SeqMin(vector) - SeqMax(vector)) * x
        + (Len(vector) - 1) * (SeqMax(vector) - vector[x + 1])

\* Brute-force search: the first index no other index beats.
ChordArgmax(vector) ==
    CHOOSE i \in 0..(Len(vector) - 1) :
        /\ \A j \in 0..(Len(vector) - 1) : ChordDiff(vector, j) <= ChordDiff(vector, i)
        /\ \A j \in 0..(i - 1) : ChordDiff(vector, j) < ChordDiff(vector, i)

\* C8: kneedle returns the first index that maximizes line(i) - vector[i]
\* for the line through (0, max(vector)) and (len(vector) - 1, min(vector)),
\* the index a brute-force search against that chord finds, with its value.
C8_KneedleIsChordArgmax ==
    (call.fn = "kneedle" /\ ret.done) =>
        /\ ret.index = ChordArgmax(call.vector)
        /\ ret.value = call.vector[ChordArgmax(call.vector) + 1]

(***************************************************************************)
(* Properties of running_average.                                          *)
(***************************************************************************)
IsConstant(vector) == \A i, j \in DOMAIN vector : vector[i] = vector[j]

\* The call returned one defined value per input position, at 0..n-1.
ReturnsFullLength ==
    /\ ~ret.raised
    /\ ret.indexes = Arange(0, Len(call.vector))
    /\ Len(ret.smooth) = Len(call.vector)
    /\ \A i \in DOMAIN ret.smooth : ~IsNaN(ret.smooth[i])

OutputEqualsInput ==
    /\ ReturnsFullLength
    /\ \A i \in DOMAIN ret.smooth : MeanEquals(ret.smooth[i], call.vector[i])

EdgePaddedCallDone ==
    call.fn = "running_average" /\ ret.done /\ ~call.valid_mode

\* C9: for a constant input the smoothed output equals the input at every
\* position, for every window; with window = 1 the output equals the input
\* for every input.
C9_ConstantAndWindowOneIdentity ==
    (EdgePaddedCallDone /\ (IsConstant(call.vector) \/ call.window = 1)) =>
        OutputEqualsInput

\* C10: edge-padded running_average, with each window the code passes (10,
\* 20, a fifth of the length), returns exactly n defined values at the
\* indexes 0..n-1 for every input of length n >= 1.
C10_EdgePaddedPreservesLength ==
    (EdgePaddedCallDone
        /\ call.window \in {ProfileWindow, ResultWindow,
                            ThresholdWindow(Len(call.vector))}) =>
        ReturnsFullLength

=============================================================================
